---- MODULE Spec2Model ----
(***************************************************************************)
(* The allocation helpers of raw-rs (src/src/alloc): the `plain` tier,     *)
(* which reports out-of-memory as a null pointer, and the `lazy` tier,     *)
(* which aborts on it.  Both sit on the raw allocator std::rt::heap, which *)
(* is modelled here by its contract: a set of blocks with a requested and  *)
(* a usable byte size, an alignment and a byte content.                    *)
(*                                                                         *)
(* A behaviour fixes one element type T (its size and alignment) and       *)
(* follows one handle through its life: created by alloc or alloc_array,   *)
(* resized by realloc_array, try_grow_inplace and try_shrink_inplace,      *)
(* written through, and released by dealloc or dealloc_array.  The caller  *)
(* keeps the length, as the API demands, and updates it only on success.   *)
(***************************************************************************)
EXTENDS Integers, Sequences, FiniteSets, TLC

\* ------------------------------------------------------------- bounds

\* Width of `uint` in bits (the model's machine word).
WordBits == 4
\* Largest element count a caller asks for.
MaxLen == 8
\* Largest size_of::<T>() among the element types tried.
MaxSize == 3
\* Number of distinct heap addresses the raw allocator can hand out.
NumAddrs == 2
\* Bytes the raw allocator can have outstanding at once.
HeapCap == 12
\* Size-class granularity of the raw allocator (usable sizes are multiples).
Quantum == 4
\* Number of distinct patterns the caller writes.
NumPatterns == 2

\* ------------------------------------------------------------- machine

RECURSIVE Pow2(_)
Pow2(n) == IF n = 0 THEN 1 ELSE 2 * Pow2(n - 1)

\* uint::MAX
UintMax == Pow2(WordBits) - 1

\* `a * b` on uint: the product kept to the word width.
WrapMul(a, b) == (a * b) % (UintMax + 1)

\* a.checked_mul(b): the product, or None when it does not fit in a uint.
None == UintMax + 1
checked_mul(a, b) == IF a * b > UintMax THEN None ELSE a * b

\* Option::unwrap_or
unwrap_or(opt, default) == IF opt = None THEN default ELSE opt

Min(a, b) == IF a < b THEN a ELSE b
Max(a, b) == IF a < b THEN b ELSE a

\* ------------------------------------------------------------- pointers

\* The null pointer.
NULL == 0
\* heap::EMPTY, the non-null address that stands for every zero-sized handle.
EMPTY == 1
\* Addresses of real heap blocks.
HeapAddrs == (EMPTY + 1) .. (EMPTY + NumAddrs)

\* ------------------------------------------------------------- element types

\* The element types: size_of::<T>() and min_align_of::<T>().  Each size
\* comes with its natural alignment, the largest of 1, 2 and 4 dividing it.
\* Besides the small ones there is one large type, half the address space.
HalfWord == Pow2(WordBits - 1)
NaturalAlign(size) ==
    IF size % 4 = 0 /\ size # 0 THEN 4 ELSE IF size % 2 = 0 /\ size # 0 THEN 2 ELSE 1
Types == {[size |-> n, align |-> NaturalAlign(n)] : n \in (0 .. MaxSize) \cup {HalfWord}}

\* The element counts a caller asks for.
Lens == {1, 2, 4, 6, MaxLen}

size_of(T) == T.size
min_align_of(T) == T.align

\* ------------------------------------------------------------- raw allocator

\* A byte nobody has written yet.
Uninit == 0

\* An address that holds no block.
NoBlock == [live |-> FALSE, req |-> 0, usable |-> 0, align |-> 0, data |-> <<>>]

\* heap::usable_size(size, align): what a fresh allocation of `size` bytes
\* really occupies, the request rounded up to the size class.
usable_size(size, align) ==
    LET q == Max(Quantum, align)
    IN  ((size + q - 1) \div q) * q

\* Bytes the allocator has handed out and not got back.
RECURSIVE SumUsable(_, _)
SumUsable(b, addrs) ==
    IF addrs = {} THEN 0
    ELSE LET a == CHOOSE x \in addrs : TRUE
         IN  b[a].usable + SumUsable(b, addrs \ {a})

Outstanding(b) == SumUsable(b, HeapAddrs)

\* Whether the allocator can hold `size` more bytes when `freed` come back.
CanProvide(b, size, align, freed) ==
    /\ size <= HeapCap
    /\ Outstanding(b) - freed + usable_size(size, align) <= HeapCap

\* The first `size` bytes of a block's content given as `data`, of which
\* `kept` bytes are carried over; what lies beyond is unwritten.
Resized(data, kept, size) ==
    [i \in 1 .. size |-> IF i <= kept /\ i <= Len(data) THEN data[i] ELSE Uninit]

FreshBlock(size, align) ==
    [live |-> TRUE, req |-> size, usable |-> usable_size(size, align),
     align |-> align, data |-> Resized(<<>>, 0, size)]

\* `ptr` is a block the allocator has handed out and not got back.
Live(b, ptr) == ptr \in HeapAddrs /\ b[ptr].live

\* The allocator's precondition on a block handed back to it: `ptr` is a
\* live block that was last sized to `old_size` bytes at `align`.  A call
\* that breaks it is undefined behaviour: on a live block the allocator then
\* works with the size it was told, on anything else it does nothing.
Matches(b, ptr, old_size, align) ==
    /\ Live(b, ptr)
    /\ b[ptr].req = old_size
    /\ b[ptr].align = align

\* The record of one call to the raw allocator.
RawCall(fn, ptr, old_size, size, align) ==
    [fn |-> fn, ptr |-> ptr, old_size |-> old_size, size |-> size, align |-> align]

NoCall == RawCall("none", NULL, 0, 0, 0)

\* What a raw allocator call leaves behind: the value it returns, the heap
\* after it, and whether its precondition was broken.
HeapResult(result, b, ub) == [result |-> result, blocks |-> b, ub |-> ub]

\* Where a new block goes.  Free addresses are interchangeable, so the
\* allocator takes the lowest.
FreeAddr(b) ==
    LET free == {x \in HeapAddrs : ~b[x].live}
    IN  {x \in free : \A y \in free : x <= y}

\* heap::allocate(size, align): null, or a fresh block of `size` bytes.
heap_allocate(b, size, align) ==
    {HeapResult(NULL, b, FALSE)} \cup
    {HeapResult(a, [b EXCEPT ![a] = FreshBlock(size, align)], FALSE) :
        a \in {x \in FreeAddr(b) : CanProvide(b, size, align, 0)}}

\* heap::reallocate(ptr, old_size, size, align): null with the block left as
\* it was, or a block of `size` bytes, at the same or another address, that
\* starts with the first min(old_size, size) bytes of the old one.
heap_reallocate(b, ptr, old_size, size, align) ==
    IF ~Live(b, ptr)
    THEN {HeapResult(NULL, b, TRUE)}
    ELSE
      {HeapResult(NULL, b, ~Matches(b, ptr, old_size, align))} \cup
      {HeapResult(a,
          [[b EXCEPT ![ptr] = NoBlock] EXCEPT ![a] =
              [FreshBlock(size, align) EXCEPT
                 !.data = Resized(b[ptr].data, Min(old_size, size), size)]],
          ~Matches(b, ptr, old_size, align)) :
        a \in {x \in {ptr} \cup FreeAddr(b) :
                 CanProvide(b, size, align, b[ptr].usable)}}

\* heap::reallocate_inplace(ptr, old_size, size, align): the usable size of
\* the block after the attempt.  The block never moves.  When the new size
\* falls in the block's size class nothing has to be done; otherwise the
\* allocator either resizes the block to the new size class or refuses and
\* reports the usable size the block still has.
heap_reallocate_inplace(b, ptr, old_size, size, align) ==
    IF ~Live(b, ptr)
    THEN {HeapResult(0, b, TRUE)}
    ELSE
      LET bad     == ~Matches(b, ptr, old_size, align)
          resized == [b EXCEPT ![ptr] =
                        [FreshBlock(size, align) EXCEPT
                           !.data = Resized(b[ptr].data, Min(old_size, size), size)]]
          done    == HeapResult(usable_size(size, align), resized, bad)
          refused == HeapResult(b[ptr].usable, b, bad)
      IN  IF size <= HeapCap /\ usable_size(size, align) = b[ptr].usable
          THEN {done}
          ELSE {refused} \cup
               (IF CanProvide(b, size, align, b[ptr].usable) THEN {done} ELSE {})

\* heap::deallocate(ptr, old_size, align): the block goes back.
heap_deallocate(b, ptr, old_size, align) ==
    IF ~Live(b, ptr)
    THEN {HeapResult(0, b, TRUE)}
    ELSE {HeapResult(0, [b EXCEPT ![ptr] = NoBlock],
                     ~Matches(b, ptr, old_size, align))}

\* ------------------------------------------------------------- alloc::plain

\* What one call of the API leaves behind: the pointer it returns (`ret`,
\* for the allocating operations), its Result (`res`, for the in-place
\* operations), the heap after it, the raw allocator call it made, and
\* what that call returned (`result`), and whether the process was aborted
\* instead of the call returning.
Outcome(ret, res, hr, call) ==
    [ret |-> ret, res |-> res, blocks |-> hr.blocks, ub |-> hr.ub,
     call |-> call, result |-> hr.result, aborted |-> FALSE]

\* An operation that returns without having called the raw allocator.
Untouched(ret, res, b) == Outcome(ret, res, HeapResult(0, b, FALSE), NoCall)

\* The product taken without the overflow check: it wraps.
desired_size_wrapping(size, len) == WrapMul(size, len)

\* size.checked_mul(len).unwrap_or(uint::MAX)
desired_size(size, len) == unwrap_or(checked_mul(size, len), UintMax)

\* alloc that treats a null from the allocator as fatal.
plain_alloc_aborting(T, b) ==
    LET size == size_of(T)
    IN  IF size = 0
        THEN {Untouched(EMPTY, "-", b)}
        ELSE {[Outcome(hr.result, "-", hr,
                       RawCall("allocate", NULL, 0, size, min_align_of(T)))
                 EXCEPT !.aborted = (hr.result = NULL)] :
                hr \in heap_allocate(b, size, min_align_of(T))}

\* plain::alloc::<T>()
plain_alloc(T, b) ==
    LET size == size_of(T)
    IN  IF size = 0
        THEN {Untouched(EMPTY, "-", b)}
        ELSE {Outcome(hr.result, "-", hr,
                      RawCall("allocate", NULL, 0, size, min_align_of(T))) :
                hr \in heap_allocate(b, size, min_align_of(T))}

\* alloc_array with the unchecked product that the other operations use for
\* the old size.
plain_alloc_array_unchecked(T, b, len) ==
    LET size == size_of(T)
    IN  IF size = 0
        THEN {Untouched(EMPTY, "-", b)}
        ELSE LET desired == WrapMul(size, len)
             IN  {Outcome(hr.result, "-", hr,
                          RawCall("allocate", NULL, 0, desired, min_align_of(T))) :
                    hr \in heap_allocate(b, desired, min_align_of(T))}

\* plain::alloc_array::<T>(len)
plain_alloc_array(T, b, len) ==
    LET size == size_of(T)
    IN  IF size = 0
        THEN {Untouched(EMPTY, "-", b)}
        ELSE LET desired == desired_size(size, len)
             IN  {Outcome(hr.result, "-", hr,
                          RawCall("allocate", NULL, 0, desired, min_align_of(T))) :
                    hr \in heap_allocate(b, desired, min_align_of(T))}

\* realloc_array that gives the old length, not the old byte size.
plain_realloc_array_oldlen(T, b, ptr, old_len, len) ==
    LET size == size_of(T)
    IN  IF size = 0
        THEN {Untouched(ptr, "-", b)}
        ELSE LET desired == desired_size(size, len)
                 align   == min_align_of(T)
             IN  {Outcome(hr.result, "-", hr,
                          RawCall("reallocate", ptr, old_len, desired, align)) :
                    hr \in heap_reallocate(b, ptr, old_len, desired, align)}

\* realloc_array that gives the old block back even when the resize failed.
plain_realloc_array_freeing(T, b, ptr, old_len, len) ==
    LET size == size_of(T)
    IN  IF size = 0
        THEN {Untouched(ptr, "-", b)}
        ELSE LET desired == desired_size(size, len)
                 align   == min_align_of(T)
                 old     == WrapMul(size, old_len)
             IN  {Outcome(hr.result, "-",
                          IF hr.result = NULL
                          THEN [hr EXCEPT !.blocks = [b EXCEPT ![ptr] = NoBlock]]
                          ELSE hr,
                          RawCall("reallocate", ptr, old, desired, align)) :
                    hr \in heap_reallocate(b, ptr, old, desired, align)}

\* plain::realloc_array::<T>(ptr, old_len, len)
plain_realloc_array(T, b, ptr, old_len, len) ==
    LET size == size_of(T)
    IN  IF size = 0
        THEN {Untouched(ptr, "-", b)}
        ELSE LET desired == desired_size(size, len)
                 align   == min_align_of(T)
                 old     == WrapMul(size, old_len)
             IN  {Outcome(hr.result, "-", hr,
                          RawCall("reallocate", ptr, old, desired, align)) :
                    hr \in heap_reallocate(b, ptr, old, desired, align)}

\* try_grow_inplace that wants more usable bytes than it asked for.
plain_try_grow_inplace_strict(T, b, ptr, old_len, len) ==
    LET size  == size_of(T)
        align == min_align_of(T)
    IN  IF size = 0
        THEN {Untouched(NULL, "Ok", b)}
        ELSE LET desired == desired_size(size, len)
                 old     == WrapMul(size, old_len)
             IN  {Outcome(NULL,
                          IF hr.result > desired THEN "Ok" ELSE "Err", hr,
                          RawCall("reallocate_inplace", ptr, old, desired, align)) :
                    hr \in heap_reallocate_inplace(b, ptr, old, desired, align)}

\* try_grow_inplace with the unchecked product as the new size.
plain_try_grow_inplace_wrapping(T, b, ptr, old_len, len) ==
    LET size  == size_of(T)
        align == min_align_of(T)
    IN  IF size = 0
        THEN {Untouched(NULL, "Ok", b)}
        ELSE LET desired == WrapMul(size, len)
                 old     == WrapMul(size, old_len)
             IN  {Outcome(NULL,
                          IF hr.result >= desired THEN "Ok" ELSE "Err", hr,
                          RawCall("reallocate_inplace", ptr, old, desired, align)) :
                    hr \in heap_reallocate_inplace(b, ptr, old, desired, align)}

\* try_grow_inplace that compares the usable size with the old byte size.
plain_try_grow_inplace_vs_old(T, b, ptr, old_len, len) ==
    LET size  == size_of(T)
        align == min_align_of(T)
    IN  IF size = 0
        THEN {Untouched(NULL, "Ok", b)}
        ELSE LET desired == desired_size(size, len)
                 old     == WrapMul(size, old_len)
             IN  {Outcome(NULL,
                          IF hr.result >= old THEN "Ok" ELSE "Err", hr,
                          RawCall("reallocate_inplace", ptr, old, desired, align)) :
                    hr \in heap_reallocate_inplace(b, ptr, old, desired, align)}

\* plain::try_grow_inplace::<T>(ptr, old_len, len)
plain_try_grow_inplace(T, b, ptr, old_len, len) ==
    LET size  == size_of(T)
        align == min_align_of(T)
    IN  IF size = 0
        THEN {Untouched(NULL, "Ok", b)}
        ELSE LET desired == desired_size(size, len)
                 old     == WrapMul(size, old_len)
             IN  {Outcome(NULL,
                          IF hr.result >= desired THEN "Ok" ELSE "Err", hr,
                          RawCall("reallocate_inplace", ptr, old, desired, align)) :
                    hr \in heap_reallocate_inplace(b, ptr, old, desired, align)}

\* try_shrink_inplace that tests against the usable size of the old byte size.
plain_try_shrink_inplace_vs_old(T, b, ptr, old_len, len) ==
    LET size  == size_of(T)
        align == min_align_of(T)
    IN  IF size = 0
        THEN {Untouched(NULL, "Ok", b)}
        ELSE LET desired == WrapMul(size, len)
                 old     == WrapMul(size, old_len)
             IN  {Outcome(NULL,
                          IF hr.result = usable_size(old, align)
                          THEN "Ok" ELSE "Err", hr,
                          RawCall("reallocate_inplace", ptr, old, desired, align)) :
                    hr \in heap_reallocate_inplace(b, ptr, old, desired, align)}

\* try_shrink_inplace that asks for `len` bytes, not `len` elements.
plain_try_shrink_inplace_lenbytes(T, b, ptr, old_len, len) ==
    LET size  == size_of(T)
        align == min_align_of(T)
    IN  IF size = 0
        THEN {Untouched(NULL, "Ok", b)}
        ELSE LET desired == len
                 old     == WrapMul(size, old_len)
             IN  {Outcome(NULL,
                          IF hr.result = usable_size(desired, align)
                          THEN "Ok" ELSE "Err", hr,
                          RawCall("reallocate_inplace", ptr, old, desired, align)) :
                    hr \in heap_reallocate_inplace(b, ptr, old, desired, align)}

\* try_shrink_inplace with the success test of try_grow_inplace.
plain_try_shrink_inplace_atleast(T, b, ptr, old_len, len) ==
    LET size  == size_of(T)
        align == min_align_of(T)
    IN  IF size = 0
        THEN {Untouched(NULL, "Ok", b)}
        ELSE LET desired == WrapMul(size, len)
                 old     == WrapMul(size, old_len)
             IN  {Outcome(NULL,
                          IF hr.result >= desired THEN "Ok" ELSE "Err", hr,
                          RawCall("reallocate_inplace", ptr, old, desired, align)) :
                    hr \in heap_reallocate_inplace(b, ptr, old, desired, align)}

\* plain::try_shrink_inplace::<T>(ptr, old_len, len)
plain_try_shrink_inplace(T, b, ptr, old_len, len) ==
    LET size  == size_of(T)
        align == min_align_of(T)
    IN  IF size = 0
        THEN {Untouched(NULL, "Ok", b)}
        ELSE LET desired == WrapMul(size, len)
                 old     == WrapMul(size, old_len)
             IN  {Outcome(NULL,
                          IF hr.result = usable_size(desired, align)
                          THEN "Ok" ELSE "Err", hr,
                          RawCall("reallocate_inplace", ptr, old, desired, align)) :
                    hr \in heap_reallocate_inplace(b, ptr, old, desired, align)}

\* plain::dealloc::<T>(ptr)
plain_dealloc(T, b, ptr) ==
    LET size == size_of(T)
    IN  IF size = 0
        THEN {Untouched(NULL, "-", b)}
        ELSE {Outcome(NULL, "-", hr,
                      RawCall("deallocate", ptr, size, 0, min_align_of(T))) :
                hr \in heap_deallocate(b, ptr, size, min_align_of(T))}

\* dealloc_array that gives the length, not the byte size.
plain_dealloc_array_len(T, b, ptr, len) ==
    LET size == size_of(T)
    IN  IF size = 0
        THEN {Untouched(NULL, "-", b)}
        ELSE {Outcome(NULL, "-", hr,
                      RawCall("deallocate", ptr, len, 0, min_align_of(T))) :
                hr \in heap_deallocate(b, ptr, len, min_align_of(T))}

\* dealloc_array without the zero-size branch.
plain_dealloc_array_unguarded(T, b, ptr, len) ==
    {Outcome(NULL, "-", hr,
             RawCall("deallocate", ptr, WrapMul(size_of(T), len), 0,
                     min_align_of(T))) :
       hr \in heap_deallocate(b, ptr, WrapMul(size_of(T), len), min_align_of(T))}

\* plain::dealloc_array::<T>(ptr, len)
plain_dealloc_array(T, b, ptr, len) ==
    LET size == size_of(T)
    IN  IF size = 0
        THEN {Untouched(NULL, "-", b)}
        ELSE {Outcome(NULL, "-", hr,
                      RawCall("deallocate", ptr, WrapMul(size, len), 0,
                              min_align_of(T))) :
                hr \in heap_deallocate(b, ptr, WrapMul(size, len), min_align_of(T))}

\* ------------------------------------------------------------- alloc::lazy

\* alloc::oom(): abort().  The call does not return; the heap is as the
\* failed plain call left it.
oom(o) == [o EXCEPT !.aborted = TRUE]

\* lazy::alloc::<T>()
lazy_alloc(T, b) ==
    {IF o.ret = NULL THEN oom(o) ELSE o : o \in plain_alloc(T, b)}

\* alloc_array without the null check: the plain result is passed on.
lazy_alloc_array_unchecked(T, b, len) == plain_alloc_array(T, b, len)

\* lazy::alloc_array::<T>(len)
lazy_alloc_array(T, b, len) ==
    {IF o.ret = NULL THEN oom(o) ELSE o : o \in plain_alloc_array(T, b, len)}

\* lazy::realloc_array::<T>(ptr, old_len, len)
lazy_realloc_array(T, b, ptr, old_len, len) ==
    {IF o.ret = NULL THEN oom(o) ELSE o :
        o \in plain_realloc_array(T, b, ptr, old_len, len)}

\* lazy::try_grow_inplace::<T>(ptr, old_len, len)
lazy_try_grow_inplace(T, b, ptr, old_len, len) ==
    plain_try_grow_inplace(T, b, ptr, old_len, len)

\* try_shrink_inplace that treats Err as fatal, as the allocating calls do.
lazy_try_shrink_inplace_aborting(T, b, ptr, old_len, len) ==
    {IF o.res = "Err" THEN oom(o) ELSE o :
        o \in plain_try_shrink_inplace(T, b, ptr, old_len, len)}

\* lazy::try_shrink_inplace::<T>(ptr, old_len, len)
lazy_try_shrink_inplace(T, b, ptr, old_len, len) ==
    plain_try_shrink_inplace(T, b, ptr, old_len, len)

\* lazy::dealloc::<T>(ptr)
lazy_dealloc(T, b, ptr) == plain_dealloc(T, b, ptr)

\* lazy::dealloc_array::<T>(ptr, len)
lazy_dealloc_array(T, b, ptr, len) == plain_dealloc_array(T, b, ptr, len)

\* ------------------------------------------------------------- the caller

VARIABLES
    T,        \* the element type of the handle: [size, align]
    blocks,   \* the raw allocator's heap: address -> block
    h,        \* the caller's handle: [kind, ptr, len]
    shadow,   \* the element values the caller wrote and still expects to read
    last,     \* the last API call: operation, tier, arguments and outcome
    aborted,  \* the process was aborted
    ub        \* a raw allocator call broke the allocator's precondition

vars == <<T, blocks, h, shadow, last, aborted, ub>>

NoHandle == [kind |-> "none", ptr |-> NULL, len |-> 0]

\* The value of element `i` in pattern `p`.
Val(p, i) == (p - 1) * MaxLen + i

\* Element `i` (from 1) of the array at `ptr`: the first byte of the element.
\* Every byte of an element carries the element's value.
ReadElem(b, ptr, size, i) == b[ptr].data[(i - 1) * size + 1]

\* The heap after elements 1..len at `ptr` are written with pattern `p`.
WriteAll(b, ptr, size, len, p) ==
    [b EXCEPT ![ptr].data =
        [k \in 1 .. Len(b[ptr].data) |->
            IF k <= size * len THEN Val(p, ((k - 1) \div size) + 1)
            ELSE b[ptr].data[k]]]

Prefix(seq, n) == [i \in 1 .. Min(n, Len(seq)) |-> seq[i]]

\* The record of one call: the operation, its tier and arguments, the
\* pointer (`ret`) or Result (`res`) the plain code produced, the raw
\* allocator call made and its result, whether the call returned, the
\* operation that came before it with its Result, and the bytes outstanding
\* when it was made.
Call(op, tier, ptr, old_len, len, o) ==
    [op |-> op, tier |-> tier, ptr |-> ptr, old_len |-> old_len, len |-> len,
     ret |-> o.ret, res |-> o.res, call |-> o.call, result |-> o.result,
     returned |-> ~o.aborted, prev |-> last.op, prev_res |-> last.res,
     outstanding |-> Outstanding(blocks)]

NoOutcome == Untouched(NULL, "-", [a \in HeapAddrs |-> NoBlock])

Init ==
    /\ T \in Types
    /\ blocks = [a \in HeapAddrs |-> NoBlock]
    /\ h = NoHandle
    /\ shadow = <<>>
    /\ last = [op |-> "none", tier |-> "-", ptr |-> NULL, old_len |-> 0, len |-> 0,
               ret |-> NULL, res |-> "-", call |-> NoCall, result |-> 0,
               returned |-> TRUE, prev |-> "none", prev_res |-> "-",
               outstanding |-> 0]
    /\ aborted = FALSE
    /\ ub = FALSE

\* The effect every call has: the heap, the abort and the record of the call.
Effect(op, tier, ptr, old_len, len, o) ==
    /\ blocks' = o.blocks
    /\ aborted' = o.aborted
    /\ ub' = (ub \/ o.ub)
    /\ last' = Call(op, tier, ptr, old_len, len, o)
    /\ UNCHANGED T

\* The caller takes the pointer of a successful allocating call as its
\* handle, with the length it asked for, and keeps the old handle otherwise.
Adopt(o, kind, len) ==
    IF o.aborted \/ o.ret = NULL
    THEN UNCHANGED <<h, shadow>>
    ELSE /\ h' = [kind |-> kind, ptr |-> o.ret, len |-> len]
         /\ shadow' = Prefix(shadow, len)

\* The caller takes the new length after a successful in-place resize.
Relen(o, len) ==
    IF o.res = "Ok"
    THEN /\ h' = [h EXCEPT !.len = len]
         /\ shadow' = Prefix(shadow, len)
    ELSE UNCHANGED <<h, shadow>>

Running == ~aborted

PlainAlloc ==
    /\ Running
    /\ h.kind = "none"
    /\ \E o \in plain_alloc(T, blocks) :
          /\ Effect("alloc", "plain", NULL, 0, 0, o)
          /\ Adopt(o, "one", 1)

LazyAlloc ==
    /\ Running
    /\ h.kind = "none"
    /\ \E o \in lazy_alloc(T, blocks) :
          /\ Effect("alloc", "lazy", NULL, 0, 0, o)
          /\ Adopt(o, "one", 1)

PlainAllocArray ==
    /\ Running
    /\ h.kind = "none"
    /\ \E len \in Lens : \E o \in plain_alloc_array(T, blocks, len) :
          /\ Effect("alloc_array", "plain", NULL, 0, len, o)
          /\ Adopt(o, "array", len)

LazyAllocArray ==
    /\ Running
    /\ h.kind = "none"
    /\ \E len \in Lens : \E o \in lazy_alloc_array(T, blocks, len) :
          /\ Effect("alloc_array", "lazy", NULL, 0, len, o)
          /\ Adopt(o, "array", len)

PlainReallocArray ==
    /\ Running
    /\ h.kind = "array"
    /\ \E len \in Lens :
       \E o \in plain_realloc_array(T, blocks, h.ptr, h.len, len) :
          /\ Effect("realloc_array", "plain", h.ptr, h.len, len, o)
          /\ Adopt(o, "array", len)

LazyReallocArray ==
    /\ Running
    /\ h.kind = "array"
    /\ \E len \in Lens :
       \E o \in lazy_realloc_array(T, blocks, h.ptr, h.len, len) :
          /\ Effect("realloc_array", "lazy", h.ptr, h.len, len, o)
          /\ Adopt(o, "array", len)

PlainTryGrowInplace ==
    /\ Running
    /\ h.kind = "array"
    /\ \E len \in {n \in Lens : n >= h.len} :
       \E o \in plain_try_grow_inplace(T, blocks, h.ptr, h.len, len) :
          /\ Effect("try_grow_inplace", "plain", h.ptr, h.len, len, o)
          /\ Relen(o, len)

LazyTryGrowInplace ==
    /\ Running
    /\ h.kind = "array"
    /\ \E len \in {n \in Lens : n >= h.len} :
       \E o \in lazy_try_grow_inplace(T, blocks, h.ptr, h.len, len) :
          /\ Effect("try_grow_inplace", "lazy", h.ptr, h.len, len, o)
          /\ Relen(o, len)

PlainTryShrinkInplace ==
    /\ Running
    /\ h.kind = "array"
    /\ \E len \in {n \in Lens : n <= h.len} :
       \E o \in plain_try_shrink_inplace(T, blocks, h.ptr, h.len, len) :
          /\ Effect("try_shrink_inplace", "plain", h.ptr, h.len, len, o)
          /\ Relen(o, len)

LazyTryShrinkInplace ==
    /\ Running
    /\ h.kind = "array"
    /\ \E len \in {n \in Lens : n <= h.len} :
       \E o \in lazy_try_shrink_inplace(T, blocks, h.ptr, h.len, len) :
          /\ Effect("try_shrink_inplace", "lazy", h.ptr, h.len, len, o)
          /\ Relen(o, len)

Release(o) ==
    /\ h' = NoHandle
    /\ shadow' = <<>>

PlainDealloc ==
    /\ Running
    /\ h.kind = "one"
    /\ \E o \in plain_dealloc(T, blocks, h.ptr) :
          /\ Effect("dealloc", "plain", h.ptr, 0, 0, o)
          /\ Release(o)

LazyDealloc ==
    /\ Running
    /\ h.kind = "one"
    /\ \E o \in lazy_dealloc(T, blocks, h.ptr) :
          /\ Effect("dealloc", "lazy", h.ptr, 0, 0, o)
          /\ Release(o)

PlainDeallocArray ==
    /\ Running
    /\ h.kind = "array"
    /\ \E o \in plain_dealloc_array(T, blocks, h.ptr, h.len) :
          /\ Effect("dealloc_array", "plain", h.ptr, h.len, h.len, o)
          /\ Release(o)

LazyDeallocArray ==
    /\ Running
    /\ h.kind = "array"
    /\ \E o \in lazy_dealloc_array(T, blocks, h.ptr, h.len) :
          /\ Effect("dealloc_array", "lazy", h.ptr, h.len, h.len, o)
          /\ Release(o)

\* The caller writes a pattern into every element of a sized handle.  A
\* write past the end of the block is undefined behaviour.
Write ==
    /\ Running
    /\ h.kind \in {"one", "array"}
    /\ size_of(T) # 0
    /\ h.ptr \in HeapAddrs
    /\ blocks[h.ptr].live
    /\ \E p \in 1 .. NumPatterns :
          /\ blocks' = WriteAll(blocks, h.ptr, size_of(T), h.len, p)
          /\ shadow' = [i \in 1 .. h.len |-> Val(p, i)]
    /\ ub' = (ub \/ size_of(T) * h.len > Len(blocks[h.ptr].data))
    /\ last' = Call("write", "-", h.ptr, h.len, h.len, NoOutcome)
    /\ UNCHANGED <<T, h, aborted>>

Next ==
    \/ PlainAlloc
    \/ LazyAlloc
    \/ PlainAllocArray
    \/ LazyAllocArray
    \/ PlainReallocArray
    \/ LazyReallocArray
    \/ PlainTryGrowInplace
    \/ LazyTryGrowInplace
    \/ PlainTryShrinkInplace
    \/ LazyTryShrinkInplace
    \/ PlainDealloc
    \/ LazyDealloc
    \/ PlainDeallocArray
    \/ LazyDeallocArray
    \/ Write

Spec == Init /\ [][Next]_vars

\* Type correctness of the state.
TypeOK ==
    /\ T \in Types
    /\ h.kind \in {"none", "one", "array"}
    /\ h.ptr \in {NULL, EMPTY} \cup HeapAddrs
    /\ h.len \in 0 .. MaxLen
    /\ aborted \in BOOLEAN
    /\ ub \in BOOLEAN
    /\ \A a \in HeapAddrs : Len(blocks[a].data) = blocks[a].req

\* ------------------------------------------------------------- properties

Sized == size_of(T) # 0
ZeroSized == size_of(T) = 0

\* The operations that hand out a pointer.
Allocating == {"alloc", "alloc_array", "realloc_array"}

\* The raw allocator function each operation calls for a sized type.
RawFn(op) ==
    CASE op \in {"alloc", "alloc_array"} -> "allocate"
      [] op = "realloc_array" -> "reallocate"
      [] op \in {"try_grow_inplace", "try_shrink_inplace"} -> "reallocate_inplace"
      [] op \in {"dealloc", "dealloc_array"} -> "deallocate"
      [] OTHER -> "none"

\* The last call asked for more elements than fit in a uint's worth of bytes.
Overflowing == Sized /\ size_of(T) * last.len > UintMax

\* C1: for a sized T and a len whose byte count size_of(T) * len exceeds
\* uint::MAX, plain alloc_array hands heap::allocate exactly uint::MAX as the
\* byte size, never the wrapped product, and plain realloc_array and
\* try_grow_inplace hand the same saturated value to heap::reallocate and
\* heap::reallocate_inplace as the new byte size.
C1_SaturatedRequest ==
    (/\ last.tier = "plain"
     /\ last.op \in {"alloc_array", "realloc_array", "try_grow_inplace"}
     /\ Overflowing)
    => /\ last.call.fn = RawFn(last.op)
       /\ last.call.size = UintMax

\* An overflowing plain alloc_array whose wrapped product differs from the
\* saturated size has reached the raw allocator.
C1_Witness ==
    /\ last.tier = "plain"
    /\ last.op = "alloc_array"
    /\ Overflowing
    /\ WrapMul(size_of(T), last.len) # UintMax
    /\ last.call.fn = "allocate"
    /\ last.call.size = UintMax

\* C2: for a zero-sized T, whatever calls were made so far, the raw
\* allocator was never called and holds no block, alloc and alloc_array
\* returned EMPTY, realloc_array returned the pointer it was given, and
\* try_grow_inplace and try_shrink_inplace returned Ok.
C2_ZeroSizedNeverAllocates ==
    ZeroSized =>
       /\ last.call = NoCall
       /\ \A a \in HeapAddrs : blocks[a] = NoBlock
       /\ last.returned
       /\ last.op \in {"alloc", "alloc_array"} => last.ret = EMPTY
       /\ last.op = "realloc_array" => last.ret = last.ptr
       /\ last.op \in {"try_grow_inplace", "try_shrink_inplace"} => last.res = "Ok"
       /\ h.kind # "none" => h.ptr = EMPTY

\* A zero-sized array handle has been resized in place and then freed.
C2_Witness ==
    /\ ZeroSized
    /\ last.op = "dealloc_array"
    /\ last.ptr = EMPTY
    /\ last.len > 1
    /\ last.call = NoCall

InPlace == {"try_grow_inplace", "try_shrink_inplace"}

\* A call that reported it could not satisfy the request.
Failed(c) ==
    \/ c.op \in Allocating /\ c.ret = NULL
    \/ c.op \in InPlace /\ c.res = "Err"

\* C4: plain mode never aborts: every plain call returns, whatever the raw
\* allocator did; an allocating call on a sized T returns the allocator's
\* result as it is, so a failure is a null; an in-place call returns Ok only
\* when the block has the size asked for; and after a call that reports
\* failure (null, or Err from an in-place call) the heap and the caller's
\* handle are what they were before the call.
C4_PlainNeverAborts ==
    /\ [](last.tier = "plain" =>
             /\ last.returned
             /\ ~aborted
             /\ (Sized /\ last.op \in Allocating) => last.ret = last.result
             /\ (Sized /\ last.op \in InPlace /\ last.res = "Ok")
                   => blocks[last.ptr].req = last.call.size)
    /\ [][(last'.tier = "plain" /\ Failed(last'))
            => (blocks' = blocks /\ h' = h /\ shadow' = shadow)]_vars

\* A plain realloc_array got null from the allocator and returned it, with
\* the process running and the handle still on its live block.
C4_Witness ==
    /\ last.tier = "plain"
    /\ last.op = "realloc_array"
    /\ last.call.fn = "reallocate"
    /\ last.result = NULL
    /\ last.ret = NULL
    /\ last.returned
    /\ ~aborted
    /\ h.ptr = last.ptr
    /\ Live(blocks, h.ptr)

\* What the plain operation does from the current heap.
PlainOutcomes(op, ptr, old_len, len) ==
    CASE op = "alloc" -> plain_alloc(T, blocks)
      [] op = "alloc_array" -> plain_alloc_array(T, blocks, len)
      [] op = "realloc_array" -> plain_realloc_array(T, blocks, ptr, old_len, len)
      [] op = "try_grow_inplace" ->
            plain_try_grow_inplace(T, blocks, ptr, old_len, len)
      [] op = "try_shrink_inplace" ->
            plain_try_shrink_inplace(T, blocks, ptr, old_len, len)
      [] op = "dealloc" -> plain_dealloc(T, blocks, ptr)
      [] op = "dealloc_array" -> plain_dealloc_array(T, blocks, ptr, len)
      [] OTHER -> {}

\* C5: the lazy tier differs from the plain tier only in what it does with a
\* failure: every lazy call makes a raw allocator call that the plain
\* operation makes from the same heap with the same arguments (same function,
\* byte sizes, alignment and effect on the heap) and yields the plain result;
\* lazy try_grow_inplace, try_shrink_inplace, dealloc and dealloc_array
\* always return and never abort.
C5_LazyMatchesPlain ==
    [][last'.tier = "lazy" =>
         /\ \E o \in PlainOutcomes(last'.op, last'.ptr, last'.old_len, last'.len) :
               /\ o.call = last'.call
               /\ o.result = last'.result
               /\ o.blocks = blocks'
               /\ o.ret = last'.ret
               /\ o.res = last'.res
         /\ last'.op \notin Allocating => (last'.returned /\ ~aborted')]_vars

\* A lazy try_shrink_inplace was refused by the allocator and returned Err
\* to a caller that goes on running.
C5_Witness ==
    /\ last.tier = "lazy"
    /\ last.op = "try_shrink_inplace"
    /\ last.call.fn = "reallocate_inplace"
    /\ last.res = "Err"
    /\ last.returned
    /\ ~aborted

\* The handle's block is live and sized for the length the caller holds, so
\* it can be read, reallocated and deallocated at that length.
HandleValid ==
    /\ Matches(blocks, h.ptr, size_of(T) * h.len, min_align_of(T))
    /\ size_of(T) * h.len <= UintMax

\* Every element the caller wrote and kept reads back as written.
ContentKept ==
    /\ Len(shadow) <= h.len
    /\ \A i \in 1 .. Len(shadow) : ReadElem(blocks, h.ptr, size_of(T), i) = shadow[i]

\* C6 as claimed: alloc_array(len) followed by dealloc_array never aborts,
\* for every T and every len > 0.
C6_AsClaimed ==
    (last.op = "alloc_array" /\ last.len > 0) => ~aborted

\* C6, amended: whenever alloc_array(len) returns a non-null pointer, a
\* dealloc_array of that pointer with the same len right after it does not
\* abort, passes heap::deallocate the byte size and alignment that
\* heap::allocate was given, and leaves the bytes outstanding as they were
\* before the allocation.
C6_AllocThenDealloc ==
    [][(/\ last.op = "alloc_array"
        /\ last.returned
        /\ last.ret # NULL
        /\ last'.op = "dealloc_array")
       => /\ last'.returned
          /\ ~aborted'
          /\ ~ub'
          /\ last'.ptr = last.ret
          /\ last'.len = last.len
          /\ Outstanding(blocks') = last.outstanding
          /\ Sized => /\ last.call.fn = "allocate"
                      /\ last'.call.fn = "deallocate"
                      /\ last'.call.ptr = last.ret
                      /\ last'.call.old_size = last.call.size
                      /\ last'.call.align = last.call.align]_vars

\* A sized array was allocated and freed right away, and the heap is empty.
C6_Witness ==
    /\ Sized
    /\ last.op = "dealloc_array"
    /\ last.prev = "alloc_array"
    /\ last.call.fn = "deallocate"
    /\ last.call.old_size = size_of(T) * last.len
    /\ last.len > 1
    /\ last.outstanding > 0
    /\ Outstanding(blocks) = 0
    /\ ~aborted

\* A byte count cut off at uint::MAX.
Saturated(n) == Min(n, UintMax)

\* C7: realloc_array(ptr, len, len * 2) gives heap::reallocate size * len as
\* the old byte size and the saturated size * (len * 2) as the new one, and
\* when it returns a pointer, the elements written into the array of length
\* len read back unchanged through that pointer.
C7_ReallocRoundTrip ==
    (/\ Sized
     /\ last.op = "realloc_array"
     /\ last.len = 2 * last.old_len)
    => /\ last.call.fn = "reallocate"
       /\ last.call.ptr = last.ptr
       /\ last.call.old_size = size_of(T) * last.old_len
       /\ last.call.size = Saturated(size_of(T) * last.len)
       /\ last.call.align = min_align_of(T)
       /\ (last.returned /\ last.ret # NULL) =>
             /\ h.ptr = last.ret
             /\ h.len = last.len
             /\ HandleValid
             /\ ContentKept

\* A fully written array of a multi-byte type was doubled by a realloc_array
\* that moved it, and every element written reads back through the new pointer.
C7_Witness ==
    /\ size_of(T) > 1
    /\ last.op = "realloc_array"
    /\ last.prev = "write"
    /\ last.len = 2 * last.old_len
    /\ last.old_len > 1
    /\ last.ret \notin {NULL, last.ptr}
    /\ Len(shadow) = last.old_len
    /\ \A i \in 1 .. last.old_len :
          ReadElem(blocks, last.ret, size_of(T), i) = Val(1, i)

\* C8: for a sized T, try_shrink_inplace asks heap::reallocate_inplace to take
\* the block from size * old_len to size * len bytes and returns Ok exactly
\* when the usable size it gets back equals usable_size(size * len, align);
\* after Ok the block's usable size is that of a fresh block of the new length.
C8_ShrinkExactUsable ==
    (Sized /\ last.op = "try_shrink_inplace")
    => /\ last.call = RawCall("reallocate_inplace", last.ptr,
                              size_of(T) * last.old_len, size_of(T) * last.len,
                              min_align_of(T))
       /\ last.res = "Ok" <=>
             last.result = usable_size(size_of(T) * last.len, min_align_of(T))
       /\ last.res = "Ok" =>
             blocks[last.ptr].usable =
                usable_size(size_of(T) * last.len, min_align_of(T))

\* A shrink that the allocator carried out into a smaller size class
\* returned Ok.
C8_Witness ==
    /\ Sized
    /\ last.op = "try_shrink_inplace"
    /\ last.len < last.old_len
    /\ last.res = "Ok"
    /\ last.result < last.outstanding
    /\ blocks[last.ptr].usable = last.result

\* C9: when heap::reallocate_inplace refuses to grow the block (the usable
\* size it returns is below the size asked for), try_grow_inplace returns Err
\* and nothing has changed: the heap, with the block's address, size and
\* contents, and the caller's handle and length are as before, and the handle
\* is still valid at old_len.
C9_RefusedGrowUntouched ==
    [][(/\ Sized
        /\ last'.op = "try_grow_inplace"
        /\ last'.result < last'.call.size)
       => /\ last'.res = "Err"
          /\ last'.returned
          /\ blocks' = blocks
          /\ h' = h
          /\ shadow' = shadow
          /\ h'.len = last'.old_len
          /\ HandleValid'
          /\ ContentKept']_vars

\* A written array was refused a real growth and still holds its elements.
C9_Witness ==
    /\ Sized
    /\ last.op = "try_grow_inplace"
    /\ last.len > last.old_len
    /\ last.result < last.call.size
    /\ last.res = "Err"
    /\ h.len = last.old_len
    /\ Len(shadow) = h.len
    /\ HandleValid
    /\ ContentKept

\* C10: when plain realloc_array returns null, nothing has changed: the block
\* is neither freed nor resized, its contents are intact, the caller's handle
\* still holds the original pointer at old_len, and that pointer with old_len
\* is what the allocator expects of a later realloc_array or dealloc_array.
C10_FailedReallocKeepsBlock ==
    [][(/\ Sized
        /\ last'.tier = "plain"
        /\ last'.op = "realloc_array"
        /\ last'.ret = NULL)
       => /\ last'.returned
          /\ blocks' = blocks
          /\ h' = h
          /\ shadow' = shadow
          /\ h'.ptr = last'.ptr
          /\ h'.len = last'.old_len
          /\ HandleValid'
          /\ ContentKept']_vars

\* A written array failed to be reallocated to another length and still
\* holds all its elements at the original pointer.
C10_Witness ==
    /\ Sized
    /\ last.tier = "plain"
    /\ last.op = "realloc_array"
    /\ last.len # last.old_len
    /\ last.ret = NULL
    /\ last.returned
    /\ h.ptr = last.ptr
    /\ h.len = last.old_len
    /\ Len(shadow) = h.len
    /\ HandleValid
    /\ ContentKept

\* The handle's block holds at least the bytes of the elements the caller
\* counts on.
BlockCoversHandle ==
    (Sized /\ h.kind = "array") =>
       /\ Live(blocks, h.ptr)
       /\ blocks[h.ptr].req >= size_of(T) * h.len

\* C11: an overflowing request fails and never succeeds wrongly.  The raw
\* allocator cannot provide uint::MAX bytes (HeapCap is below it); then for a
\* sized T and a len whose byte count overflows, alloc_array and
\* realloc_array yield null, which the plain tier returns and on which the
\* lazy tier aborts, and try_grow_inplace returns Err; and no array handle
\* ever sits on a block smaller than size_of(T) * len bytes.
C11_OverflowFails ==
    HeapCap < UintMax =>
       /\ (Overflowing /\ last.op \in {"alloc_array", "realloc_array"}) =>
             /\ last.ret = NULL
             /\ last.tier = "plain" => (last.returned /\ ~aborted)
             /\ last.tier = "lazy" => (~last.returned /\ aborted)
       /\ (Overflowing /\ last.op = "try_grow_inplace") =>
             /\ last.res = "Err"
             /\ last.returned
       /\ BlockCoversHandle

\* A lazy realloc_array aborted on an overflowing length whose wrapped byte
\* count the allocator could have provided.
C11_Witness ==
    /\ last.tier = "lazy"
    /\ last.op = "realloc_array"
    /\ Overflowing
    /\ WrapMul(size_of(T), last.len) \in 1 .. HeapCap
    /\ last.call.size = UintMax
    /\ last.ret = NULL
    /\ aborted

\* C12: for a sized T, try_grow_inplace asks heap::reallocate_inplace to take
\* the block from size * old_len bytes to the saturated size * len and returns
\* Ok exactly when the usable size it gets back is at least that saturated
\* size; a smaller usable size gives Err.
C12_GrowAtLeastDesired ==
    (Sized /\ last.op = "try_grow_inplace")
    => /\ last.call = RawCall("reallocate_inplace", last.ptr,
                              size_of(T) * last.old_len,
                              Saturated(size_of(T) * last.len), min_align_of(T))
       /\ last.res = "Ok" <=> last.result >= Saturated(size_of(T) * last.len)
       /\ last.result < Saturated(size_of(T) * last.len) => last.res = "Err"

\* A growth into a larger size class that the allocator carried out, with
\* exactly the bytes asked for usable, returned Ok.
C12_Witness ==
    /\ Sized
    /\ last.op = "try_grow_inplace"
    /\ last.len > last.old_len
    /\ last.result = last.call.size
    /\ last.result > last.outstanding
    /\ last.res = "Ok"
    /\ h.len = last.len

\* C13: whenever try_shrink_inplace returns Err on a sized T, the usable size
\* reported differs from usable_size(size * len, align) and nothing has
\* changed: the heap, with the block's address, byte size and contents, and
\* the caller's handle are as before, so old_len is still the length to give
\* to every later call.
C13_FailedShrinkUnchanged ==
    [][(/\ Sized
        /\ last'.op = "try_shrink_inplace"
        /\ last'.res = "Err")
       => /\ last'.result # usable_size(size_of(T) * last'.len, min_align_of(T))
          /\ last'.returned
          /\ blocks' = blocks
          /\ h' = h
          /\ shadow' = shadow
          /\ h'.ptr = last'.ptr
          /\ h'.len = last'.old_len
          /\ HandleValid'
          /\ ContentKept']_vars

\* A written array was refused a shrink into a smaller size class by either
\* tier and still holds all its elements at old_len.
C13_Witness ==
    /\ Sized
    /\ last.op = "try_shrink_inplace"
    /\ last.len < last.old_len
    /\ last.res = "Err"
    /\ last.result > usable_size(size_of(T) * last.len, min_align_of(T))
    /\ h.len = last.old_len
    /\ Len(shadow) = h.len
    /\ HandleValid
    /\ ContentKept

\* The block at `ptr` in heap `b` holds `n` whole elements.
Holds(b, ptr, n) == Live(b, ptr) /\ b[ptr].req >= size_of(T) * n

\* C14: content survives an in-place shrink and the moving resize after it.
\* When try_shrink_inplace(ptr, n, m) returns Ok, the block is still at ptr and
\* its first m elements are what they were; and when the realloc_array(ptr,
\* m, k) that follows it returns a pointer, the first min(m, k) elements
\* there are those of the shrunk block.
C14_ShrinkThenRealloc ==
    /\ [][(/\ Sized
            /\ last'.op = "try_shrink_inplace"
            /\ last'.res = "Ok")
           => /\ h'.ptr = h.ptr
              /\ h'.len = last'.len
              /\ Holds(blocks, h.ptr, last'.len)
              /\ Holds(blocks', h.ptr, last'.len)
              /\ \A i \in 1 .. last'.len :
                    ReadElem(blocks', h.ptr, size_of(T), i)
                       = ReadElem(blocks, h.ptr, size_of(T), i)]_vars
    /\ [][(/\ Sized
            /\ last.op = "try_shrink_inplace"
            /\ last.res = "Ok"
            /\ last'.op = "realloc_array"
            /\ last'.returned
            /\ last'.ret # NULL)
           => /\ last'.ptr = last.ptr
              /\ last'.old_len = last.len
              /\ h'.ptr = last'.ret
              /\ Holds(blocks, last.ptr, last.len)
              /\ Holds(blocks', last'.ret, last'.len)
              /\ \A i \in 1 .. Min(last'.old_len, last'.len) :
                    ReadElem(blocks', last'.ret, size_of(T), i)
                       = ReadElem(blocks, last.ptr, size_of(T), i)]_vars

\* The scenario: an array shrunk in place to 2 elements was reallocated to 8
\* and its elements 1 and 2 read back as written.
C14_Witness ==
    /\ Sized
    /\ last.op = "realloc_array"
    /\ last.prev = "try_shrink_inplace"
    /\ last.prev_res = "Ok"
    /\ last.old_len = 2
    /\ last.len = 8
    /\ last.returned
    /\ last.ret # NULL
    /\ shadow = <<Val(1, 1), Val(1, 2)>>
    /\ ReadElem(blocks, last.ret, size_of(T), 1) = Val(1, 1)
    /\ ReadElem(blocks, last.ret, size_of(T), 2) = Val(1, 2)

\* The operations that take the length of an existing array.
TakesOldLen ==
    {"realloc_array", "try_grow_inplace", "try_shrink_inplace", "dealloc_array"}

\* C15: with a caller that keeps the length of the last successful creating
\* or resizing call, the unchecked products never overflow: size * len of the
\* handle fits in a uint, so size * old_len in realloc_array, try_grow_inplace,
\* try_shrink_inplace and dealloc_array and size * len in try_shrink_inplace
\* are the true byte counts; and every reallocate, reallocate_inplace and
\* deallocate call is given as old byte size the size last requested
\* successfully for the block, at its alignment.
C15_OldSizeMatches ==
    /\ []((Sized /\ h.kind = "array") => size_of(T) * h.len <= UintMax)
    /\ []((Sized /\ last.op \in TakesOldLen) =>
             /\ size_of(T) * last.old_len <= UintMax
             /\ last.call.old_size = size_of(T) * last.old_len
             /\ last.op = "try_shrink_inplace" =>
                   /\ size_of(T) * last.len <= UintMax
                   /\ last.call.size = size_of(T) * last.len)
    /\ [](~ub)
    /\ [][last'.call.fn \in {"reallocate", "reallocate_inplace", "deallocate"}
           => /\ Live(blocks, last'.call.ptr)
              /\ last'.call.old_size = blocks[last'.call.ptr].req
              /\ last'.call.align = blocks[last'.call.ptr].align]_vars

\* An array that was grown in place and then reallocated is freed with the
\* byte size of its last successful resize.
C15_Witness ==
    /\ size_of(T) > 1
    /\ last.op = "dealloc_array"
    /\ last.prev \in {"realloc_array", "try_grow_inplace", "try_shrink_inplace"}
    /\ last.call.fn = "deallocate"
    /\ last.call.old_size = size_of(T) * last.old_len
    /\ last.old_len > 1
    /\ last.outstanding = usable_size(last.call.old_size, min_align_of(T))
    /\ Outstanding(blocks) = 0
    /\ ~ub

\* No raw allocator call ever broke the allocator's precondition.
NoUB == ~ub

====
